---- MODULE Spec2Model ----
(***************************************************************************)
(* Model of src/api.py: the story slot manager (create / update / delete / *)
(* create-in-slot), the upload intake, the poster and story views with     *)
(* their photo URL resolution, and the photo proxy.                        *)
(*                                                                         *)
(* Strings are sequences of one-character strings, so that startswith,     *)
(* concatenation and split are computed and not assumed.  A Python         *)
(* Optional / an SQL nullable column is a sequence of length at most one:  *)
(* None (NULL) is << >> and a value x is << x >>.                          *)
(***************************************************************************)
EXTENDS Integers, Sequences, FiniteSets, TLC

VARIABLES
    db_pool,     \* "none" before startup, "open" once the pool is created
    stories,     \* the rows of table stories
    nextId,      \* the next value of the stories id sequence
    posters,     \* the rows of table posters
    uploads,     \* the file names present in uploads/stories
    nextUuid,    \* the next fresh name uuid4 hands out
    last,        \* the most recent handler call: arguments and response
    req,         \* per caller, the create_story_in_slot call in progress
    BOT_TOKEN,   \* TRUE when the environment configures a bot token
    photo,       \* the get_photo call in progress
    calls        \* the calls get_photo has issued to the foreign platform

vars == <<db_pool, stories, nextId, posters, uploads, nextUuid, last, req,
          BOT_TOKEN, photo, calls>>

----------------------------------------------------------------------------
(* Bounds of the model *)

MaxStories == 3   \* rows ever inserted into stories under Spec and SpecConc
MaxRows == 2      \* rows ever inserted into stories under SpecGate and SpecUpdate
MaxUploads == 1   \* files ever written to the upload directory
MaxSeeded == 1    \* rows each table holds when the read handlers run

----------------------------------------------------------------------------
(* Optional values and strings *)

None == << >>
Some(x) == << x >>
IsNone(o) == o = << >>
Val(o) == o[1]

startswith(s, p) == Len(s) >= Len(p) /\ SubSeq(s, 1, Len(p)) = p

SLASH == << "/" >>
POSTERS_ABS == << "/", "p", "o", "s", "t", "e", "r", "s", "/" >>
POSTERS_REL == << "p", "o", "s", "t", "e", "r", "s", "/" >>
UPLOADS_ABS == << "/", "u", "p", "l", "o", "a", "d", "s", "/" >>
UPLOADS_REL == << "u", "p", "l", "o", "a", "d", "s", "/" >>
PHOTO_ROUTE == << "/", "p", "h", "o", "t", "o", "/" >>
IMAGE_FAMILY == << "i", "m", "a", "g", "e", "/" >>

----------------------------------------------------------------------------
(* Admin gate *)

\* ADMIN_IDS is read from the environment; the model keeps the first id of
\* the default list
ADMIN_ID == 825042510
ADMIN_IDS == { ADMIN_ID }

is_admin(user_id) == user_id \in ADMIN_IDS

----------------------------------------------------------------------------
(* Inputs *)

UserIds == { ADMIN_ID, 7 }
SlotInputs == 0 .. 4
ValidSlots == { 1, 2, 3 }

RefUploadAbs == UPLOADS_ABS \o << "a" >>
RefUploadRel == UPLOADS_REL \o << "a" >>
RefPosterAbs == POSTERS_ABS \o << "a" >>
RefPosterRel == POSTERS_REL \o << "a" >>
RefForeign == << "A", "g" >>
AllRefs == { RefUploadAbs, RefUploadRel, RefPosterAbs, RefPosterRel, RefForeign }
StoryRefs == { RefUploadAbs, RefForeign }

Captions == { None, Some(<< "c" >>) }

\* StoryUpdate: every field Optional, None when the body leaves it out
Patches == [ caption : { None, Some(<< "c" >>) },
             order_num : { None, Some(5) },
             is_active : { None, Some(TRUE), Some(FALSE) } ]
EmptyPatch == [ caption |-> None, order_num |-> None, is_active |-> None ]

ContentTypes == { None, Some(IMAGE_FAMILY \o << "x" >>), Some(<< "t", "x", "t" >>) }

\* what the store does with a call: nothing wrong, the connection cannot be
\* acquired, or the first / the second statement raises
Failures1 == { "none", "acquire", "stmt1" }
Failures2 == { "none", "acquire", "stmt1", "stmt2" }
FsFailures == { "none", "open", "copy" }

\* the ids a call may name when at most n rows were ever inserted
StoryIds(n) == 1 .. (n + 1)

\* the callers whose create-in-slot calls may overlap
Callers == { "a", "b" }
IdlePhoto == [ pc |-> "idle", file_id |-> << >>, resolved |-> "", status |-> 0 ]
IdleReq == [ pc |-> "idle", slot_number |-> 0, file_id |-> << >>,
             caption |-> None, status |-> 0 ]

----------------------------------------------------------------------------
(* The store: statements on table stories *)

\* column defaults of the schema for the columns an INSERT leaves out
DefaultOrderNum == 0
DefaultSlot == None

StoryRow(id, file_id, caption, slot_number, order_num, now) ==
    [ id |-> id, file_id |-> file_id, caption |-> caption,
      slot_number |-> slot_number, order_num |-> order_num,
      created_at |-> now, is_active |-> TRUE ]

\* INSERT INTO stories (file_id, caption, order_num, is_active) VALUES (.., true)
InsertStory(rows, id, file_id, caption, order_num) ==
    rows \cup { StoryRow(id, file_id, caption, DefaultSlot, order_num, id) }

\* UPDATE stories SET is_active = false WHERE slot_number = $1 AND is_active = true
DeactivateSlot_none(rows, slot_number) == rows
DeactivateSlot(rows, slot_number) ==
    { IF r.slot_number = Some(slot_number) /\ r.is_active
        THEN [ r EXCEPT !.is_active = FALSE ]
        ELSE r : r \in rows }

\* the row count the UPDATE reports ("UPDATE n")
Deactivated(rows, slot_number) ==
    Cardinality({ r \in rows : r.slot_number = Some(slot_number) /\ r.is_active })

\* INSERT INTO stories (file_id, caption, slot_number, is_active) VALUES (.., true)
InsertSlotStory(rows, id, file_id, caption, slot_number) ==
    rows \cup { StoryRow(id, file_id, caption, Some(slot_number), DefaultOrderNum, id) }

\* the SET list update_story assembles: one assignment per field that is not None
BuildUpdates_truthy(story) ==
    (IF ~IsNone(story.caption) /\ Val(story.caption) # << >>
        THEN << [ col |-> "caption", val |-> story.caption ] >> ELSE << >>)
    \o (IF ~IsNone(story.order_num) /\ Val(story.order_num) # 0
        THEN << [ col |-> "order_num", val |-> story.order_num ] >> ELSE << >>)
    \o (IF ~IsNone(story.is_active) /\ Val(story.is_active)
        THEN << [ col |-> "is_active", val |-> story.is_active ] >> ELSE << >>)
BuildUpdates(story) ==
    (IF ~IsNone(story.caption)
        THEN << [ col |-> "caption", val |-> story.caption ] >> ELSE << >>)
    \o (IF ~IsNone(story.order_num)
        THEN << [ col |-> "order_num", val |-> story.order_num ] >> ELSE << >>)
    \o (IF ~IsNone(story.is_active)
        THEN << [ col |-> "is_active", val |-> story.is_active ] >> ELSE << >>)

\* one assignment of the SET list applied to a row
Assign(r, a) ==
    CASE a.col = "caption" -> [ r EXCEPT !.caption = a.val ]
      [] a.col = "order_num" -> [ r EXCEPT !.order_num = Val(a.val) ]
      [] a.col = "is_active" -> [ r EXCEPT !.is_active = Val(a.val) ]

RECURSIVE SetAll(_, _)
SetAll(r, updates) ==
    IF updates = << >> THEN r
    ELSE SetAll(Assign(r, Head(updates)), Tail(updates))

\* UPDATE stories SET <updates> WHERE id = $n
UpdateRow(rows, updates, story_id) ==
    { IF r.id = story_id THEN SetAll(r, updates) ELSE r : r \in rows }

\* DELETE FROM stories WHERE id = $1
DeleteRow(rows, story_id) == { r \in rows : r.id # story_id }

HasRow(rows, story_id) == \E r \in rows : r.id = story_id

----------------------------------------------------------------------------
(* Photo URL resolution and the views *)

\* get_stories: is_local_file and photo_url of one row
story_photo_url(file_id) ==
    LET is_local_file == startswith(file_id, UPLOADS_ABS) \/ startswith(file_id, UPLOADS_REL)
    IN  IF is_local_file
          THEN (IF startswith(file_id, SLASH) THEN file_id ELSE SLASH \o file_id)
          ELSE PHOTO_ROUTE \o file_id

\* get_posters, get_latest_poster: is_local_file and photo_url of one row
poster_photo_url(file_id) ==
    LET is_local_file == startswith(file_id, POSTERS_ABS) \/ startswith(file_id, POSTERS_REL)
    IN  IF is_local_file
          THEN (IF startswith(file_id, SLASH) THEN file_id ELSE SLASH \o file_id)
          ELSE PHOTO_ROUTE \o file_id

StoryView(r) ==
    [ id |-> r.id, file_id |-> r.file_id, photo_url |-> story_photo_url(r.file_id),
      caption |-> r.caption, slot_number |-> r.slot_number,
      created_at |-> r.created_at, is_active |-> r.is_active ]

\* ORDER BY slot_number ASC: NULL sorts last, rows of equal slot in any order
SlotLeq(a, b) == IsNone(b) \/ (~IsNone(a) /\ Val(a) <= Val(b))

\* SELECT ... FROM stories WHERE is_active = true ORDER BY slot_number ASC, and
\* the view of each row: every listing the query may return
ListActiveStories(rows) ==
    LET act == { r \in rows : r.is_active }
        n == Cardinality(act)
        orders == { q \in [ 1 .. n -> act ] :
                      /\ \A i, j \in 1 .. n : i # j => q[i] # q[j]
                      /\ \A i, j \in 1 .. n :
                            i < j => SlotLeq(q[i].slot_number, q[j].slot_number) }
    IN  { [ i \in 1 .. n |-> StoryView(q[i]) ] : q \in orders }

\* str.rsplit('\n', 1): the string cut at its last newline
split1_last(s) ==
    LET nl == { i \in 1 .. Len(s) : s[i] = "\n" }
    IN  IF nl = { } THEN << s >>
        ELSE LET k == CHOOSE i \in nl : \A j \in nl : i >= j
             IN  << SubSeq(s, 1, k - 1), SubSeq(s, k + 1, Len(s)) >>

\* str.split('\n', 1): the string cut at its first newline, never empty
split1(s) ==
    LET nl == { i \in 1 .. Len(s) : s[i] = "\n" }
    IN  IF nl = { } THEN << s >>
        ELSE LET k == CHOOSE i \in nl : \A j \in nl : i <= j
             IN  << SubSeq(s, 1, k - 1), SubSeq(s, k + 1, Len(s)) >>

\* the title of a poster whose caption has no first line (the Russian word
\* for "event", written here in Latin letters)
DEFAULT_TITLE == << "M", "e", "r", "o", "p", "r", "i", "y", "a", "t", "i", "e" >>

\* get_posters, get_latest_poster: the view of one row
PosterView(r) ==
    LET caption == IF IsNone(r.caption) \/ r.caption = Some(<< >>)
                     THEN << >> ELSE Val(r.caption)
        lines == split1(caption)
        title == IF lines # << >> THEN lines[1] ELSE DEFAULT_TITLE
        subtitle == IF Len(lines) > 1 THEN lines[2] ELSE << >>
    IN  [ id |-> r.id, file_id |-> r.file_id,
          photo_url |-> poster_photo_url(r.file_id), caption |-> caption,
          title |-> title, subtitle |-> subtitle, ticket_url |-> r.ticket_url,
          venue_map_file_id |-> r.venue_map_file_id,
          created_at |-> r.created_at, is_active |-> r.is_active ]

\* SELECT ... FROM posters WHERE is_active = true ORDER BY created_at DESC, and
\* the view of each row: every listing the query may return
ListActivePosters(rows) ==
    LET act == { r \in rows : r.is_active }
        n == Cardinality(act)
        orders == { q \in [ 1 .. n -> act ] :
                      /\ \A i, j \in 1 .. n : i # j => q[i] # q[j]
                      /\ \A i, j \in 1 .. n :
                            i < j => q[i].created_at >= q[j].created_at }
    IN  { [ i \in 1 .. n |-> PosterView(q[i]) ] : q \in orders }

----------------------------------------------------------------------------
(* The record of a handler call *)

NoCall ==
    [ op |-> "none", user_id |-> 0, status |-> 0, story_id |-> 0,
      slot_number |-> 0, file_id |-> << >>, caption |-> None,
      order_num |-> 0, patch |-> EmptyPatch, content_type |-> None,
      fail |-> "none", stmts |-> << >>, fswrites |-> 0, deactivated |-> 0,
      result |-> << >> ]

\* a response; one with the store's (the file system's) failure that caused it
Resp(call, status, stmts) == [ call EXCEPT !.status = status, !.stmts = stmts ]
Failed(call, status, stmts, fail) ==
    [ call EXCEPT !.status = status, !.stmts = stmts, !.fail = fail ]

----------------------------------------------------------------------------
(* Lifespan *)

\* lifespan startup: asyncpg.create_pool succeeded (a failure stops the process)
Startup ==
    /\ db_pool = "none"
    /\ db_pool' = "open"
    /\ last' = [ NoCall EXCEPT !.op = "startup" ]
    /\ UNCHANGED << stories, nextId, posters, uploads, nextUuid, req,
                    BOT_TOKEN, photo, calls >>

----------------------------------------------------------------------------
(* Story slot manager: each handler run to completion *)

\* POST /stories
create_story(file_id, caption, order_num, user_id, fail) ==
    LET call == [ NoCall EXCEPT !.op = "create_story", !.user_id = user_id,
                    !.file_id = file_id, !.caption = caption,
                    !.order_num = order_num ]
    IN  /\ IF ~is_admin(user_id)
             THEN /\ last' = Resp(call, 403, << >>)
                  /\ UNCHANGED << stories, nextId >>
           ELSE IF db_pool = "none"
             THEN /\ last' = Resp(call, 503, << >>)
                  /\ UNCHANGED << stories, nextId >>
           ELSE IF fail = "acquire"
             THEN /\ last' = Failed(call, 500, << >>, fail)
                  /\ UNCHANGED << stories, nextId >>
           ELSE IF fail = "stmt1"
             THEN /\ last' = Failed(call, 500, << "INSERT" >>, fail)
                  /\ UNCHANGED << stories, nextId >>
           ELSE /\ stories' = InsertStory(stories, nextId, file_id, caption, order_num)
                /\ nextId' = nextId + 1
                /\ last' = Resp(call, 200, << "INSERT" >>)
        /\ UNCHANGED << db_pool, posters, uploads, nextUuid, req, BOT_TOKEN,
                        photo, calls >>

\* PUT /stories/{story_id} without the "if not updates" check: the statement
\* UPDATE stories SET WHERE id = $1 is sent and the store rejects it
update_story_unchecked(story_id, story, user_id, fail) ==
    LET call == [ NoCall EXCEPT !.op = "update_story", !.user_id = user_id,
                    !.story_id = story_id, !.patch = story ]
        updates == BuildUpdates(story)
    IN  /\ IF ~is_admin(user_id)
             THEN /\ last' = Resp(call, 403, << >>)
                  /\ stories' = stories
           ELSE IF db_pool = "none"
             THEN /\ last' = Resp(call, 503, << >>)
                  /\ stories' = stories
           ELSE IF fail = "acquire"
             THEN /\ last' = Failed(call, 500, << >>, fail)
                  /\ stories' = stories
           ELSE IF fail = "stmt1" \/ updates = << >>
             THEN /\ last' = Failed(call, 500, << "UPDATE" >>, fail)
                  /\ stories' = stories
           ELSE IF ~HasRow(stories, story_id)
             THEN /\ last' = Resp(call, 404, << "UPDATE" >>)
                  /\ stories' = stories
           ELSE /\ stories' = UpdateRow(stories, updates, story_id)
                /\ last' = Resp(call, 200, << "UPDATE" >>)
        /\ UNCHANGED << db_pool, nextId, posters, uploads, nextUuid, req,
                        BOT_TOKEN, photo, calls >>

\* PUT /stories/{story_id}
update_story(story_id, story, user_id, fail) ==
    LET call == [ NoCall EXCEPT !.op = "update_story", !.user_id = user_id,
                    !.story_id = story_id, !.patch = story ]
        updates == BuildUpdates(story)
    IN  /\ IF ~is_admin(user_id)
             THEN /\ last' = Resp(call, 403, << >>)
                  /\ stories' = stories
           ELSE IF db_pool = "none"
             THEN /\ last' = Resp(call, 503, << >>)
                  /\ stories' = stories
           ELSE IF fail = "acquire"
             THEN /\ last' = Failed(call, 500, << >>, fail)
                  /\ stories' = stories
           ELSE IF updates = << >>
             THEN /\ last' = Resp(call, 400, << >>)
                  /\ stories' = stories
           ELSE IF fail = "stmt1"
             THEN /\ last' = Failed(call, 500, << "UPDATE" >>, fail)
                  /\ stories' = stories
           ELSE IF ~HasRow(stories, story_id)
             THEN /\ last' = Resp(call, 404, << "UPDATE" >>)
                  /\ stories' = stories
           ELSE /\ stories' = UpdateRow(stories, updates, story_id)
                /\ last' = Resp(call, 200, << "UPDATE" >>)
        /\ UNCHANGED << db_pool, nextId, posters, uploads, nextUuid, req,
                        BOT_TOKEN, photo, calls >>

\* DELETE /stories/{story_id}
delete_story(story_id, user_id, fail) ==
    LET call == [ NoCall EXCEPT !.op = "delete_story", !.user_id = user_id,
                    !.story_id = story_id ]
    IN  /\ IF ~is_admin(user_id)
             THEN /\ last' = Resp(call, 403, << >>)
                  /\ stories' = stories
           ELSE IF db_pool = "none"
             THEN /\ last' = Resp(call, 503, << >>)
                  /\ stories' = stories
           ELSE IF fail = "acquire"
             THEN /\ last' = Failed(call, 500, << >>, fail)
                  /\ stories' = stories
           ELSE IF fail = "stmt1"
             THEN /\ last' = Failed(call, 500, << "DELETE" >>, fail)
                  /\ stories' = stories
           ELSE IF ~HasRow(stories, story_id)
             THEN /\ last' = Resp(call, 404, << "DELETE" >>)
                  /\ stories' = stories
           ELSE /\ stories' = DeleteRow(stories, story_id)
                /\ last' = Resp(call, 200, << "DELETE" >>)
        /\ UNCHANGED << db_pool, nextId, posters, uploads, nextUuid, req,
                        BOT_TOKEN, photo, calls >>

\* POST /stories/create-in-slot with the pool checked before the slot number
create_story_in_slot_poolfirst(user_id, slot_number, file_id, caption, fail) ==
    LET call == [ NoCall EXCEPT !.op = "create_story_in_slot",
                    !.user_id = user_id, !.slot_number = slot_number,
                    !.file_id = file_id, !.caption = caption ]
    IN  /\ IF ~is_admin(user_id)
             THEN /\ last' = Resp(call, 403, << >>)
                  /\ UNCHANGED << stories, nextId >>
           ELSE IF db_pool = "none"
             THEN /\ last' = Resp(call, 503, << >>)
                  /\ UNCHANGED << stories, nextId >>
           ELSE IF slot_number \notin { 1, 2, 3 }
             THEN /\ last' = Resp(call, 400, << >>)
                  /\ UNCHANGED << stories, nextId >>
           ELSE IF fail = "acquire"
             THEN /\ last' = Failed(call, 500, << >>, fail)
                  /\ UNCHANGED << stories, nextId >>
           ELSE IF fail = "stmt1"
             THEN /\ last' = Failed(call, 500, << "UPDATE" >>, fail)
                  /\ UNCHANGED << stories, nextId >>
           ELSE IF fail = "stmt2"
             THEN /\ stories' = DeactivateSlot(stories, slot_number)
                  /\ last' = Failed(call, 500, << "UPDATE", "INSERT" >>, fail)
                  /\ UNCHANGED nextId
           ELSE /\ stories' = InsertSlotStory(DeactivateSlot(stories, slot_number),
                                              nextId, file_id, caption, slot_number)
                /\ nextId' = nextId + 1
                /\ last' = [ Resp(call, 200, << "UPDATE", "INSERT" >>) EXCEPT
                               !.deactivated = Deactivated(stories, slot_number) ]
        /\ UNCHANGED << db_pool, posters, uploads, nextUuid, req, BOT_TOKEN,
                        photo, calls >>

\* POST /stories/create-in-slot (replace_slot): the UPDATE and the INSERT are
\* two statements on an autocommit connection, no transaction around them
create_story_in_slot(user_id, slot_number, file_id, caption, fail) ==
    LET call == [ NoCall EXCEPT !.op = "create_story_in_slot",
                    !.user_id = user_id, !.slot_number = slot_number,
                    !.file_id = file_id, !.caption = caption ]
    IN  /\ IF ~is_admin(user_id)
             THEN /\ last' = Resp(call, 403, << >>)
                  /\ UNCHANGED << stories, nextId >>
           ELSE IF slot_number \notin { 1, 2, 3 }
             THEN /\ last' = Resp(call, 400, << >>)
                  /\ UNCHANGED << stories, nextId >>
           ELSE IF db_pool = "none"
             THEN /\ last' = Resp(call, 503, << >>)
                  /\ UNCHANGED << stories, nextId >>
           ELSE IF fail = "acquire"
             THEN /\ last' = Failed(call, 500, << >>, fail)
                  /\ UNCHANGED << stories, nextId >>
           ELSE IF fail = "stmt1"
             THEN /\ last' = Failed(call, 500, << "UPDATE" >>, fail)
                  /\ UNCHANGED << stories, nextId >>
           ELSE IF fail = "stmt2"
             THEN /\ stories' = DeactivateSlot(stories, slot_number)
                  /\ last' = Failed(call, 500, << "UPDATE", "INSERT" >>, fail)
                  /\ UNCHANGED nextId
           ELSE /\ stories' = InsertSlotStory(DeactivateSlot(stories, slot_number),
                                              nextId, file_id, caption, slot_number)
                /\ nextId' = nextId + 1
                /\ last' = [ Resp(call, 200, << "UPDATE", "INSERT" >>) EXCEPT
                               !.deactivated = Deactivated(stories, slot_number) ]
        /\ UNCHANGED << db_pool, posters, uploads, nextUuid, req, BOT_TOKEN,
                        photo, calls >>

----------------------------------------------------------------------------
(* Upload intake *)

\* POST /upload-story-photo with the content type checked before the admin gate
upload_story_photo_typefirst(user_id, content_type, fail) ==
    LET call == [ NoCall EXCEPT !.op = "upload_story_photo",
                    !.user_id = user_id, !.content_type = content_type ]
    IN  /\ IF IsNone(content_type) \/ ~startswith(Val(content_type), IMAGE_FAMILY)
             THEN /\ last' = Resp(call, 400, << >>)
                  /\ UNCHANGED << uploads, nextUuid >>
           ELSE IF ~is_admin(user_id)
             THEN /\ last' = Resp(call, 403, << >>)
                  /\ UNCHANGED << uploads, nextUuid >>
           ELSE IF fail = "open"
             THEN /\ last' = Failed(call, 500, << >>, fail)
                  /\ UNCHANGED << uploads, nextUuid >>
           ELSE IF fail = "copy"
             THEN /\ uploads' = uploads \cup { nextUuid }
                  /\ nextUuid' = nextUuid + 1
                  /\ last' = [ Failed(call, 500, << >>, fail) EXCEPT !.fswrites = 1 ]
           ELSE /\ uploads' = uploads \cup { nextUuid }
                /\ nextUuid' = nextUuid + 1
                /\ last' = [ Resp(call, 200, << >>) EXCEPT !.fswrites = 1,
                               !.result = << nextUuid >> ]
        /\ UNCHANGED << db_pool, stories, nextId, posters, req, BOT_TOKEN,
                        photo, calls >>

\* POST /upload-story-photo; fail = "open" is mkdir or open raising, fail = "copy"
\* is copyfileobj raising, which leaves the file it was writing
upload_story_photo(user_id, content_type, fail) ==
    LET call == [ NoCall EXCEPT !.op = "upload_story_photo",
                    !.user_id = user_id, !.content_type = content_type ]
    IN  /\ IF ~is_admin(user_id)
             THEN /\ last' = Resp(call, 403, << >>)
                  /\ UNCHANGED << uploads, nextUuid >>
           ELSE IF IsNone(content_type) \/ ~startswith(Val(content_type), IMAGE_FAMILY)
             THEN /\ last' = Resp(call, 400, << >>)
                  /\ UNCHANGED << uploads, nextUuid >>
           ELSE IF fail = "open"
             THEN /\ last' = Failed(call, 500, << >>, fail)
                  /\ UNCHANGED << uploads, nextUuid >>
           ELSE IF fail = "copy"
             THEN /\ uploads' = uploads \cup { nextUuid }
                  /\ nextUuid' = nextUuid + 1
                  /\ last' = [ Failed(call, 500, << >>, fail) EXCEPT !.fswrites = 1 ]
           ELSE /\ uploads' = uploads \cup { nextUuid }
                /\ nextUuid' = nextUuid + 1
                /\ last' = [ Resp(call, 200, << >>) EXCEPT !.fswrites = 1,
                               !.result = << nextUuid >> ]
        /\ UNCHANGED << db_pool, stories, nextId, posters, req, BOT_TOKEN,
                        photo, calls >>

----------------------------------------------------------------------------
(* The story slot manager, handlers one after another *)

Init ==
    /\ db_pool = "none"
    /\ stories = { }
    /\ nextId = 1
    /\ posters = { }
    /\ uploads = { }
    /\ nextUuid = 1
    /\ last = NoCall
    /\ req = [ c \in Callers |-> IdleReq ]
    /\ BOT_TOKEN = FALSE
    /\ photo = IdlePhoto
    /\ calls = << >>

\* the inputs of this specification: the patches that set is_active or nothing
ActivePatches == { p \in Patches : IsNone(p.caption) /\ IsNone(p.order_num) }

\* the calls in progress that have yet to insert their row
Pending == Cardinality({ c \in Callers : req[c].pc = "deactivated" })

\* at most n rows are ever inserted, the calls in progress counted in
Fits(n) == nextId' + Pending' <= n + 1

Next ==
    \/ Startup
    \/ create_story(RefForeign, None, 0, ADMIN_ID, "none") /\ Fits(MaxStories)
    \/ \E i \in StoryIds(MaxStories), p \in ActivePatches :
          update_story(i, p, ADMIN_ID, "none")
    \/ \E i \in StoryIds(MaxStories) : delete_story(i, ADMIN_ID, "none")
    \/ \E s \in SlotInputs, f \in StoryRefs, x \in Failures2 :
          create_story_in_slot(ADMIN_ID, s, f, None, x) /\ Fits(MaxStories)

Spec == Init /\ [][Next]_vars

----------------------------------------------------------------------------
(* The admin gate and the argument checks of every mutating handler (SpecGate) *)

GatePatches == { EmptyPatch, [ EmptyPatch EXCEPT !.is_active = Some(FALSE) ] }

NextGate ==
    \/ Startup
    \/ \E u \in UserIds : create_story(RefForeign, None, 0, u, "none") /\ Fits(MaxRows)
    \/ \E i \in StoryIds(MaxRows), p \in GatePatches, u \in UserIds :
          update_story(i, p, u, "none")
    \/ \E i \in StoryIds(MaxRows), u \in UserIds : delete_story(i, u, "none")
    \/ \E u \in UserIds, s \in SlotInputs, x \in Failures2 :
          create_story_in_slot(u, s, RefForeign, None, x) /\ Fits(MaxRows)
    \/ \E u \in UserIds, t \in ContentTypes, x \in FsFailures :
          upload_story_photo(u, t, x) /\ nextUuid' <= MaxUploads + 1

SpecGate == Init /\ [][NextGate]_vars

----------------------------------------------------------------------------
(* Partial updates (SpecUpdate) *)

NextUpdate ==
    \/ Startup
    \/ \E c \in Captions :
          create_story_in_slot(ADMIN_ID, 1, RefUploadAbs, c, "none") /\ Fits(MaxRows)
    \/ \E i \in StoryIds(MaxRows), p \in Patches, x \in Failures1 :
          update_story(i, p, ADMIN_ID, x)

SpecUpdate == Init /\ [][NextUpdate]_vars

----------------------------------------------------------------------------
(* Overlapping create-in-slot calls, one store statement per step (SpecConc) *)

\* the handler up to and including its first statement, the UPDATE
slot_begin(c, user_id, slot_number, file_id, caption, fail) ==
    LET r == [ IdleReq EXCEPT !.slot_number = slot_number, !.file_id = file_id,
                 !.caption = caption ]
        Done(status) == req' = [ req EXCEPT ![c] = [ r EXCEPT !.pc = "done",
                                                        !.status = status ] ]
    IN  /\ req[c].pc = "idle"
        /\ fail \in { "none", "acquire", "stmt1" }
        /\ IF ~is_admin(user_id)
             THEN Done(403) /\ stories' = stories
           ELSE IF slot_number \notin { 1, 2, 3 }
             THEN Done(400) /\ stories' = stories
           ELSE IF db_pool = "none"
             THEN Done(503) /\ stories' = stories
           ELSE IF fail # "none"
             THEN Done(500) /\ stories' = stories
           ELSE /\ stories' = DeactivateSlot(stories, slot_number)
                /\ req' = [ req EXCEPT ![c] = [ r EXCEPT !.pc = "deactivated" ] ]
        /\ UNCHANGED << db_pool, nextId, posters, uploads, nextUuid, last,
                        BOT_TOKEN, photo, calls >>

\* the second statement, the INSERT, and the response
slot_insert(c, fail) ==
    /\ req[c].pc = "deactivated"
    /\ fail \in { "none", "stmt2" }
    /\ IF fail = "stmt2"
         THEN /\ req' = [ req EXCEPT ![c].pc = "done", ![c].status = 500 ]
              /\ UNCHANGED << stories, nextId >>
         ELSE /\ stories' = InsertSlotStory(stories, nextId, req[c].file_id,
                                            req[c].caption, req[c].slot_number)
              /\ nextId' = nextId + 1
              /\ req' = [ req EXCEPT ![c].pc = "done", ![c].status = 200 ]
    /\ UNCHANGED << db_pool, posters, uploads, nextUuid, last, BOT_TOKEN,
                    photo, calls >>

\* the caller has its response and may call again
slot_return(c) ==
    /\ req[c].pc = "done"
    /\ req' = [ req EXCEPT ![c] = IdleReq ]
    /\ UNCHANGED << db_pool, stories, nextId, posters, uploads, nextUuid, last,
                    BOT_TOKEN, photo, calls >>

NextConc ==
    \/ Startup
    \/ \E c \in Callers, u \in UserIds, s \in { 0, 1, 2 }, x \in Failures1 :
          slot_begin(c, u, s, RefForeign, None, x) /\ Fits(MaxStories)
    \/ \E c \in Callers, x \in { "none", "stmt2" } : slot_insert(c, x)
    \/ \E c \in Callers : slot_return(c)

SpecConc == Init /\ [][NextConc]_vars

----------------------------------------------------------------------------
(* The read handlers and the photo proxy (SpecPhoto) *)

\* GET /stories
get_stories(fail) ==
    LET call == [ NoCall EXCEPT !.op = "get_stories" ]
    IN  /\ IF db_pool = "none"
             THEN last' = Resp(call, 503, << >>)
           ELSE IF fail # "none"
             THEN last' = Failed(call, 500, << "SELECT" >>, fail)
           ELSE \E q \in ListActiveStories(stories) :
                   last' = [ Resp(call, 200, << "SELECT" >>) EXCEPT !.result = q ]
        /\ UNCHANGED << db_pool, stories, nextId, posters, uploads, nextUuid,
                        req, BOT_TOKEN, photo, calls >>

\* GET /posters
get_posters(fail) ==
    LET call == [ NoCall EXCEPT !.op = "get_posters" ]
    IN  /\ IF db_pool = "none"
             THEN last' = Resp(call, 503, << >>)
           ELSE IF fail # "none"
             THEN last' = Failed(call, 500, << "SELECT" >>, fail)
           ELSE \E q \in ListActivePosters(posters) :
                   last' = [ Resp(call, 200, << "SELECT" >>) EXCEPT !.result = q ]
        /\ UNCHANGED << db_pool, stories, nextId, posters, uploads, nextUuid,
                        req, BOT_TOKEN, photo, calls >>

\* GET /posters/latest: the first row of the same query (LIMIT 1)
get_latest_poster(fail) ==
    LET call == [ NoCall EXCEPT !.op = "get_latest_poster" ]
    IN  /\ IF db_pool = "none"
             THEN last' = Resp(call, 503, << >>)
           ELSE IF fail # "none"
             THEN last' = Failed(call, 500, << "SELECT" >>, fail)
           ELSE \E q \in ListActivePosters(posters) :
                   IF q = << >>
                     THEN last' = Resp(call, 404, << "SELECT" >>)
                     ELSE last' = [ Resp(call, 200, << "SELECT" >>)
                                      EXCEPT !.result = << q[1] >> ]
        /\ UNCHANGED << db_pool, stories, nextId, posters, uploads, nextUuid,
                        req, BOT_TOKEN, photo, calls >>

\* GET /photo/{file_id} entered without the BOT_TOKEN check
photo_start_unchecked(file_id) ==
    /\ photo.pc = "idle"
    /\ photo' = [ IdlePhoto EXCEPT !.pc = "resolving", !.file_id = file_id ]
    /\ calls' = << >>
    /\ UNCHANGED << db_pool, stories, nextId, posters, uploads, nextUuid, last,
                    req, BOT_TOKEN >>

\* GET /photo/{file_id}: the handler is entered
photo_start(file_id) ==
    /\ photo.pc = "idle"
    /\ IF ~BOT_TOKEN
         THEN photo' = [ IdlePhoto EXCEPT !.pc = "done", !.file_id = file_id,
                                           !.status = 503 ]
         ELSE photo' = [ IdlePhoto EXCEPT !.pc = "resolving", !.file_id = file_id ]
    /\ calls' = << >>
    /\ UNCHANGED << db_pool, stories, nextId, posters, uploads, nextUuid, last,
                    req, BOT_TOKEN >>

\* getFile, with the "ok" field of the answer not looked at
photo_resolve_unchecked(outcome) ==
    /\ photo.pc = "resolving"
    /\ calls' = Append(calls, "getFile")
    /\ IF outcome = "error"
         THEN photo' = [ photo EXCEPT !.pc = "done", !.resolved = outcome,
                                       !.status = 500 ]
         ELSE photo' = [ photo EXCEPT !.pc = "downloading", !.resolved = outcome ]
    /\ UNCHANGED << db_pool, stories, nextId, posters, uploads, nextUuid, last,
                    req, BOT_TOKEN >>

\* the getFile call and its answer: "ok", "denied" (ok is false or missing),
\* "error" (the call or the parse of its answer raises)
photo_resolve(outcome) ==
    /\ photo.pc = "resolving"
    /\ calls' = Append(calls, "getFile")
    /\ IF outcome = "error"
         THEN photo' = [ photo EXCEPT !.pc = "done", !.resolved = outcome,
                                       !.status = 500 ]
       ELSE IF outcome = "denied"
         THEN photo' = [ photo EXCEPT !.pc = "done", !.resolved = outcome,
                                       !.status = 404 ]
         ELSE photo' = [ photo EXCEPT !.pc = "downloading", !.resolved = outcome ]
    /\ UNCHANGED << db_pool, stories, nextId, posters, uploads, nextUuid, last,
                    req, BOT_TOKEN >>

\* the download call and its answer: "ok" (status 200), "refused" (another
\* status), "error" (the call raises)
photo_download(outcome) ==
    /\ photo.pc = "downloading"
    /\ calls' = Append(calls, "download")
    /\ photo' = [ photo EXCEPT !.pc = "done",
                    !.status = CASE outcome = "ok" -> 200
                                 [] outcome = "refused" -> 404
                                 [] OTHER -> 500 ]
    /\ UNCHANGED << db_pool, stories, nextId, posters, uploads, nextUuid, last,
                    req, BOT_TOKEN >>

\* the response is sent
photo_return ==
    /\ photo.pc = "done"
    /\ photo' = IdlePhoto
    /\ UNCHANGED << db_pool, stories, nextId, posters, uploads, nextUuid, last,
                    req, BOT_TOKEN, calls >>

PosterRow(id, file_id, caption, is_active) ==
    [ id |-> id, file_id |-> file_id, caption |-> caption, ticket_url |-> None,
      venue_map_file_id |-> None, created_at |-> id, is_active |-> is_active ]

\* the tables the read handlers may find: up to MaxSeeded rows each
PosterTables ==
    UNION { { { PosterRow(i, f[i], None, a[i]) : i \in 1 .. n } :
                f \in [ 1 .. n -> AllRefs ], a \in [ 1 .. n -> BOOLEAN ] } :
            n \in 0 .. MaxSeeded }
StoryTables ==
    UNION { { { StoryRow(i, f[i], None, Some(i), DefaultOrderNum, i) : i \in 1 .. n } :
                f \in [ 1 .. n -> AllRefs ] } :
            n \in 0 .. MaxSeeded }

Outcomes == { "ok", "denied", "error" }
DownloadOutcomes == { "ok", "refused", "error" }
PhotoIds == { RefForeign, RefPosterAbs }

InitPhoto ==
    /\ db_pool = "open"
    /\ stories \in StoryTables
    /\ nextId = MaxSeeded + 1
    /\ posters \in PosterTables
    /\ uploads = { }
    /\ nextUuid = 1
    /\ last = NoCall
    /\ req = [ c \in Callers |-> IdleReq ]
    /\ BOT_TOKEN \in BOOLEAN
    /\ photo = IdlePhoto
    /\ calls = << >>

NextPhoto ==
    \/ \E x \in { "none", "stmt1" } : get_stories(x)
    \/ \E x \in { "none", "stmt1" } : get_posters(x)
    \/ \E x \in { "none", "stmt1" } : get_latest_poster(x)
    \/ \E f \in PhotoIds : photo_start(f)
    \/ \E o \in Outcomes : photo_resolve(o)
    \/ \E o \in DownloadOutcomes : photo_download(o)
    \/ photo_return

SpecPhoto == InitPhoto /\ [][NextPhoto]_vars

----------------------------------------------------------------------------
(* The poster views: title and subtitle of a caption (SpecPoster) *)

NL == << "\n" >>
PosterCaptions ==
    { None, Some(<< >>), Some(<< "t" >>), Some(<< "t" >> \o NL),
      Some(NL \o << "s" >>), Some(<< "t" >> \o NL \o << "s" >>),
      Some(<< "t" >> \o NL \o << "s" >> \o NL \o << "u" >>) }

\* the poster tables the read handlers may find: up to MaxSeeded rows
CaptionedTables ==
    UNION { { { PosterRow(i, f[i], c[i], a[i]) : i \in 1 .. n } :
                f \in [ 1 .. n -> { RefPosterAbs, RefForeign } ],
                c \in [ 1 .. n -> PosterCaptions ],
                a \in [ 1 .. n -> BOOLEAN ] } :
            n \in 0 .. MaxSeeded }

InitPoster ==
    /\ db_pool = "open"
    /\ stories = { }
    /\ nextId = 1
    /\ posters \in CaptionedTables
    /\ uploads = { }
    /\ nextUuid = 1
    /\ last = NoCall
    /\ req = [ c \in Callers |-> IdleReq ]
    /\ BOT_TOKEN = FALSE
    /\ photo = IdlePhoto
    /\ calls = << >>

NextPoster ==
    \/ \E x \in { "none", "stmt1" } : get_posters(x)
    \/ \E x \in { "none", "stmt1" } : get_latest_poster(x)

SpecPoster == InitPoster /\ [][NextPoster]_vars

----------------------------------------------------------------------------
(* Claims *)

\* the active stories of a slot
ActiveInSlot(rows, s) ==
    { r \in rows : r.is_active /\ r.slot_number = Some(s) }

----------------------------------------------------------------------------
(* Claims on overlapping create-in-slot calls (SpecConc) *)

\* C2: once two overlapping admin create-in-slot calls on the same slot have
\* both succeeded, the slot holds exactly one active story.
C2_ConcurrentReplaceExactlyOne ==
    \A s \in ValidSlots :
        (\A c \in Callers : /\ req[c].pc = "done"
                            /\ req[c].status = 200
                            /\ req[c].slot_number = s)
        => Cardinality(ActiveInSlot(stories, s)) = 1

----------------------------------------------------------------------------
(* Claims on the admin gate (SpecGate) *)

MutatingOps == { "create_story", "update_story", "delete_story",
                 "create_story_in_slot", "upload_story_photo" }

\* C4: a mutating call by an identity outside the admin set answers 403,
\* issues no store statement and no file write, and leaves the stories table
\* and the upload directory as they were, whatever its other arguments.
C4_NonAdminNoEffect ==
    [][ (last'.op \in MutatingOps /\ last'.user_id \notin ADMIN_IDS)
        => ( /\ last'.status = 403
             /\ last'.stmts = << >>
             /\ last'.fswrites = 0
             /\ stories' = stories
             /\ nextId' = nextId
             /\ uploads' = uploads
             /\ nextUuid' = nextUuid ) ]_vars

\* a non-admin upload of a non-image was refused with 403 while the table and
\* the upload directory held something to lose
C4_Witness ==
    /\ last.op = "upload_story_photo"
    /\ last.user_id \notin ADMIN_IDS
    /\ last.content_type = Some(<< "t", "x", "t" >>)
    /\ last.status = 403
    /\ stories # { }
    /\ uploads # { }

----------------------------------------------------------------------------
(* Claims on partial updates (SpecUpdate) *)

\* the row a patch should leave: the fields the patch carries take its
\* values, every other field keeps its own
Patched(r, p) ==
    [ r EXCEPT !.caption = IF IsNone(p.caption) THEN @ ELSE p.caption,
               !.order_num = IF IsNone(p.order_num) THEN @ ELSE Val(p.order_num),
               !.is_active = IF IsNone(p.is_active) THEN @ ELSE Val(p.is_active) ]

\* C5: an admin update of an existing story with a non-empty patch, the store
\* answering, succeeds; the row takes exactly the patch's fields, its other
\* fields and every other row stay as they were.
C5_UpdateFrame ==
    [][ ( /\ last'.op = "update_story"
          /\ last'.user_id \in ADMIN_IDS
          /\ last'.patch # EmptyPatch
          /\ \E r \in stories : r.id = last'.story_id
          /\ db_pool = "open"
          /\ last'.fail = "none" )
        => ( /\ last'.status = 200
             /\ stories' = { IF r.id = last'.story_id
                               THEN Patched(r, last'.patch) ELSE r : r \in stories } ) ]_vars

\* update_story(id, {order_num: 5}) succeeded on a row whose caption was set
\* and which was inactive, and both survived; another row exists
C5_Witness ==
    /\ last.op = "update_story"
    /\ last.status = 200
    /\ last.patch = [ EmptyPatch EXCEPT !.order_num = Some(5) ]
    /\ \E r \in stories :
          /\ r.id = last.story_id
          /\ r.order_num = 5
          /\ r.caption = Some(<< "c" >>)
          /\ ~r.is_active
    /\ \E r \in stories : r.id # last.story_id

\* C6: an admin update with an empty patch leaves every row unchanged and,
\* the store answering, is refused with 400 whether or not the id exists; with
\* a non-empty patch and an id that matches no row it leaves every row
\* unchanged and, the store answering, is refused with 404.
C6_EmptyPatchOrMissing ==
    [][ (last'.op = "update_story" /\ last'.user_id \in ADMIN_IDS)
        => LET exists == \E r \in stories : r.id = last'.story_id
               answering == db_pool = "open" /\ last'.fail = "none"
           IN  /\ last'.patch = EmptyPatch =>
                    /\ stories' = stories
                    /\ answering => last'.status = 400
               /\ (last'.patch # EmptyPatch /\ ~exists) =>
                    /\ stories' = stories
                    /\ answering => last'.status = 404 ]_vars

\* an empty patch on an existing story was refused with 400
C6_Witness ==
    /\ last.op = "update_story"
    /\ last.patch = EmptyPatch
    /\ last.status = 400
    /\ \E r \in stories : r.id = last.story_id

----------------------------------------------------------------------------
(* Claims on the story slot manager, handlers one after another *)

\* C1: in every reachable store state, each slot 1..3 holds at most one
\* active story.
C1_AtMostOneActivePerSlot ==
    \A s \in ValidSlots : Cardinality(ActiveInSlot(stories, s)) <= 1

\* C3: right after an admin create-in-slot call on slot s with reference ref
\* succeeded, every listing of the active stories holds exactly one story of
\* slot s, and that story's reference is ref.
C3_ReplaceThenList ==
    (last.op = "create_story_in_slot" /\ last.status = 200) =>
        \A q \in ListActiveStories(stories) :
            LET hits == { i \in DOMAIN q : q[i].slot_number = Some(last.slot_number) }
            IN  /\ Cardinality(hits) = 1
                /\ \A i \in hits : q[i].file_id = last.file_id

\* a rotation succeeded in a slot that held two active stories, one of them
\* with another reference, and displaced both
C3_Witness ==
    /\ last.op = "create_story_in_slot"
    /\ last.status = 200
    /\ last.deactivated = 2
    /\ \E r \in stories :
          /\ r.slot_number = Some(last.slot_number)
          /\ ~r.is_active
          /\ r.file_id # last.file_id

\* C7 (under SpecGate): an admin create-in-slot call with a slot number
\* outside 1..3 answers 400 with no statement issued and the table untouched,
\* whatever the state of the pool.
C7_BadSlotRejected ==
    [][ ( /\ last'.op = "create_story_in_slot"
          /\ last'.user_id \in ADMIN_IDS
          /\ last'.slot_number \notin ValidSlots )
        => ( /\ last'.status = 400
             /\ last'.stmts = << >>
             /\ stories' = stories
             /\ nextId' = nextId ) ]_vars

\* a bad slot number was rejected with 400 while the pool did not exist
C7_Witness ==
    /\ last.op = "create_story_in_slot"
    /\ last.user_id \in ADMIN_IDS
    /\ last.slot_number \notin ValidSlots
    /\ last.status = 400
    /\ db_pool = "none"

----------------------------------------------------------------------------
(* Claims on the views and the photo proxy (SpecPhoto) *)

ListOps == { "get_posters", "get_latest_poster", "get_stories" }

HasLocalPrefix(f) ==
    \/ startswith(f, POSTERS_ABS) \/ startswith(f, POSTERS_REL)
    \/ startswith(f, UPLOADS_ABS) \/ startswith(f, UPLOADS_REL)

RECURSIVE StripSlashes(_)
StripSlashes(f) ==
    IF f # << >> /\ Head(f) = "/" THEN StripSlashes(Tail(f)) ELSE f

\* C8: in every poster view and every story view, a reference that starts
\* with one of the four local prefixes resolves to the reference with exactly
\* one leading slash.
C8_LocalPrefixOneSlash ==
    (last.op \in ListOps /\ last.status = 200) =>
        \A i \in DOMAIN last.result :
            HasLocalPrefix(last.result[i].file_id) =>
                last.result[i].photo_url = SLASH \o StripSlashes(last.result[i].file_id)

\* C9: in every view a reference with no local prefix resolves to /photo/
\* followed by the reference; and a proxy call with a token configured issues
\* getFile once, then download once exactly when getFile answered ok, in that
\* order and nothing else, a denied getFile ending in 404.
C9_ProxyCalls ==
    /\ (last.op \in ListOps /\ last.status = 200) =>
          \A i \in DOMAIN last.result :
              ~HasLocalPrefix(last.result[i].file_id) =>
                  last.result[i].photo_url = PHOTO_ROUTE \o last.result[i].file_id
    /\ (BOT_TOKEN /\ photo.pc = "resolving") => calls = << >>
    /\ (BOT_TOKEN /\ photo.pc = "downloading") =>
          calls = << "getFile" >> /\ photo.resolved = "ok"
    /\ (BOT_TOKEN /\ photo.pc = "done") =>
          /\ photo.resolved = "ok" => calls = << "getFile", "download" >>
          /\ photo.resolved # "ok" => calls = << "getFile" >>
          /\ photo.resolved = "denied" => photo.status = 404

\* a foreign reference was listed with its proxy URL and a proxy call ended
\* 200 after one getFile and one download
C9_Witness ==
    /\ last.op = "get_stories"
    /\ last.status = 200
    /\ \E i \in DOMAIN last.result :
          /\ last.result[i].file_id = RefForeign
          /\ last.result[i].photo_url = PHOTO_ROUTE \o RefForeign
    /\ BOT_TOKEN
    /\ photo.pc = "done"
    /\ photo.status = 200
    /\ calls = << "getFile", "download" >>

\* C10: with no token configured every proxy call ends 503 and issues no
\* call to the foreign platform.
C10_NoTokenNoCalls ==
    ~BOT_TOKEN =>
        /\ calls = << >>
        /\ photo.pc # "idle" => (photo.pc = "done" /\ photo.status = 503)

\* a proxy call ended 503 with no token configured
C10_Witness ==
    /\ ~BOT_TOKEN
    /\ photo.pc = "done"
    /\ photo.status = 503
    /\ photo.file_id = RefForeign

----------------------------------------------------------------------------
(* Claims on the poster views (SpecPoster) *)

PosterOps == { "get_posters", "get_latest_poster" }

\* the row of table posters a view was made from
RowOf(v) == CHOOSE r \in posters : r.id = v.id

\* the caption of a row as text, a NULL caption being no text
TextOf(r) == IF IsNone(r.caption) THEN << >> ELSE Val(r.caption)

HasNewline(t) == \E i \in 1 .. Len(t) : t[i] = "\n"

\* C11: every poster view of a row whose caption is empty or NULL has the
\* default title, not the empty string, and the empty subtitle.
C11_EmptyCaptionDefaultTitle ==
    (last.op \in PosterOps /\ last.status = 200) =>
        \A i \in DOMAIN last.result :
            TextOf(RowOf(last.result[i])) = << >> =>
                /\ last.result[i].title = DEFAULT_TITLE
                /\ last.result[i].subtitle = << >>

\* C12: in every poster view, a caption with a newline is title, newline,
\* subtitle with no newline in the title; a caption without one is the title
\* whole, with the empty subtitle.
C12_TitleSubtitleSplit ==
    (last.op \in PosterOps /\ last.status = 200) =>
        \A i \in DOMAIN last.result :
            LET v == last.result[i]
                t == TextOf(RowOf(v))
            IN  IF HasNewline(t)
                  THEN /\ ~HasNewline(v.title)
                       /\ v.title \o NL \o v.subtitle = t
                  ELSE /\ v.title = t
                       /\ v.subtitle = << >>

\* the latest poster's caption had two newlines: the title is its first
\* line and the subtitle keeps the second newline
C12_Witness ==
    /\ last.op = "get_latest_poster"
    /\ last.status = 200
    /\ TextOf(RowOf(last.result[1])) = << "t" >> \o NL \o << "s" >> \o NL \o << "u" >>
    /\ last.result[1].title = << "t" >>
    /\ last.result[1].subtitle = << "s" >> \o NL \o << "u" >>

----------------------------------------------------------------------------
(* Claims on a create-in-slot call that fails (Spec) *)

\* C13: an admin create-in-slot call that ends in an error because its INSERT
\* failed after its UPDATE ran leaves the stories table as it was before the
\* call.
C13_FailedRotationKeepsTable ==
    [][ ( /\ last'.op = "create_story_in_slot"
          /\ last'.user_id \in ADMIN_IDS
          /\ last'.fail = "stmt2"
          /\ last'.status = 500 )
        => stories' = stories ]_vars

====
